---- MODULE Spec2Model ----
(***************************************************************************)
(* A model of slots.py: the symbol catalog, the payline generator, the     *)
(* score engine, the reel engine with its grid layout, and the game loop   *)
(* of main().                                                              *)
(*                                                                         *)
(* Python lists are sequences (index i of the source is index i + 1       *)
(* here), tuples (x, y) are <<x, y>>.  Positions are kept in units of      *)
(* 1/Q pixel, so that the divisions by 2 and by 4 of the source are exact  *)
(* on integers (the source computes them on floats, exactly as well).      *)
(***************************************************************************)
EXTENDS Integers, Sequences, FiniteSets, TLC

VARIABLES
    pc,               \* position in the body of main()'s while loop
    status,           \* 0 nothing, 1 rolling, 2 calculating score, 3 margins
    total_score,      \* the balance
    score,            \* score of the last settled grid
    rolls,            \* the grid: one list of symbol instances per column
    time,             \* ticks spent on the current highlighted line
    slots_to_draw,    \* winning runs, as references into rolls
    slot_line_index,  \* index of the run being highlighted
    events,           \* the events pygame.event.get() handed to the current tick
    fn, arg, res      \* a call of one of the pure functions: name, arguments, result

vars == <<pc, status, total_score, score, rolls, time, slots_to_draw,
          slot_line_index, events, fn, arg, res>>

game_vars == <<pc, status, total_score, score, rolls, time, slots_to_draw,
               slot_line_index, events>>

call_vars == <<fn, arg, res>>

-----------------------------------------------------------------------------
(* Python helpers *)

\* the positions range(n) runs over (none when n <= 0), counted from 1
range(n) == 1..(IF n > 0 THEN n ELSE 0)

Max(S) == CHOOSE m \in S : \A k \in S : k <= m

Min(S) == CHOOSE m \in S : \A k \in S : m <= k

RECURSIVE SumSeq(_)
SumSeq(s) == IF s = <<>> THEN 0 ELSE s[1] + SumSeq(Tail(s))

\* ls[:n] for 0 <= n
Prefix(ls, n) == SubSeq(ls, 1, IF n < Len(ls) THEN n ELSE Len(ls))

\* list(f): the list holding the items of f
list(f) == f \o <<>>

RECURSIVE Concat(_)
Concat(ss) == IF ss = <<>> THEN <<>> ELSE ss[1] \o Concat(Tail(ss))

-----------------------------------------------------------------------------
(* Symbols: SlotSymbol and its subclass WildSymbol *)

\* SlotSymbol.__init__ / WildSymbol (inherited): the fields the engine reads
NewSymbol(cls, sym_id, value, size) ==
    [cls |-> cls, sym_id |-> sym_id, value |-> value,
     width |-> size[1], height |-> size[2],
     x |-> 0, y |-> 0, margin |-> FALSE]

isinstance_WildSymbol(obj) == obj.cls = "WildSymbol"

isinstance_SlotSymbol(obj) == obj.cls \in {"SlotSymbol", "WildSymbol"}

SlotSymbol__eq__(self, other) ==
    IF isinstance_SlotSymbol(other)
    THEN self.sym_id = other.sym_id
    ELSE FALSE

WildSymbol__eq__(self, other) ==
    IF isinstance_WildSymbol(other)
    THEN self.sym_id = other.sym_id
    ELSE IF isinstance_SlotSymbol(other)
         THEN TRUE
         ELSE FALSE

\* a plausible slip: the left operand's method always decides
eq_left_operand_only(a, b) ==
    IF a.cls = "WildSymbol" THEN WildSymbol__eq__(a, b) ELSE SlotSymbol__eq__(a, b)

\* Python's a == b on two symbols: when type(b) is a proper subclass of
\* type(a), b's method is tried first; otherwise a's method
eq(a, b) ==
    IF a.cls = "SlotSymbol" /\ b.cls = "WildSymbol"
    THEN WildSymbol__eq__(b, a)
    ELSE IF a.cls = "WildSymbol"
         THEN WildSymbol__eq__(a, b)
         ELSE SlotSymbol__eq__(a, b)

set_margin(symbol, boolean) == [symbol EXCEPT !.margin = boolean]

set_x(symbol, x) == [symbol EXCEPT !.x = x]

set_y(symbol, y) == [symbol EXCEPT !.y = y]

set_pos(symbol, pos) == set_y(set_x(symbol, pos[1]), pos[2])

\* self.rect: the Rect load_image() made for the catalog entry.  copy() copies
\* the reference, so every copy of an entry holds the entry's own Rect; the
\* catalog holds one entry (and one Rect) per sym_id.
rect_of(symbol) == symbol.sym_id

\* the Rects after load_image(): rect.update((x, y), (width, height))
load_image_rects(ls) ==
    [r \in {rect_of(ls[k]) : k \in 1..Len(ls)} |->
        LET entry == ls[CHOOSE k \in 1..Len(ls) : rect_of(ls[k]) = r]
        IN  <<entry.x, entry.y>>]

\* the Rects after set_x / set_y / set_pos: self.rect is not None, so
\* self.rect.x = self.x and self.rect.y = self.y are run as well
set_x_rect(rects, symbol, x) == [rects EXCEPT ![rect_of(symbol)] = <<x, @[2]>>]

set_y_rect(rects, symbol, y) == [rects EXCEPT ![rect_of(symbol)] = <<@[1], y>>]

set_pos_rect(rects, symbol, pos) ==
    set_y_rect(set_x_rect(rects, symbol, pos[1]), symbol, pos[2])

-----------------------------------------------------------------------------
(* Symbol catalog *)

\* a plausible slip: big_vals is not reduced to the amount
generate_values_no_clamp(amount, wild_val, default_val, max_val, big_vals) ==
    LET big == [i \in range(big_vals) |-> max_val - wild_val * (i - 1)]
        values == big \o [k \in range(amount - Len(big)) |-> default_val]
    IN  IF Len(values) # amount
        THEN [error |-> "ValueError", wild_val |-> wild_val, values |-> values]
        ELSE [error |-> "none", wild_val |-> wild_val, values |-> values]

\* the result is (wild_val, values), or the ValueError of the count check
generate_values(amount, wild_val, default_val, max_val, big_vals) ==
    LET bv == IF big_vals > amount THEN amount ELSE big_vals
        big == [i \in range(bv) |-> max_val - wild_val * (i - 1)]
        values == big \o [k \in range(amount - Len(big)) |-> default_val]
    IN  IF Len(values) # amount
        THEN [error |-> "ValueError", wild_val |-> wild_val, values |-> values]
        ELSE [error |-> "none", wild_val |-> wild_val, values |-> values]

-----------------------------------------------------------------------------
(* Payline generator *)

add_xy(xy1, xy2) == <<xy1[1] + xy2[1], xy1[2] + xy2[2]>>

shift_points(points, shift) ==
    [k \in 1..Len(points) |-> add_xy(points[k], shift)]

horizontal_line(columns) == [k \in range(columns) |-> <<k - 1, 0>>]

triangle_line(columns) ==
    LET even == IF columns % 2 = 0 THEN 1 ELSE 0
        up == [k \in range(((columns - even) \div 2) + 1) |-> <<k - 1, k - 1>>]
        peak == up[Len(up)]
        line == IF columns % 2 = 0
                THEN Append(up, <<peak[1] + 1, peak[2]>>)
                ELSE up
        rest == columns - Len(line)
        start == Len(line)
        downwards_portion ==
            [k \in range(rest) |-> <<start + (k - 1), line[(rest - (k - 1) - 1) + 1][2]>>]
    IN  line \o downwards_portion

dip_line(columns) ==
    LET line == <<<<0, 1>>>>
    IN  IF columns = 1
        THEN line
        ELSE (IF columns > 2
              THEN line \o [k \in range(columns - 2) |-> <<k, 0>>]
              ELSE line) \o <<<<columns - 1, 1>>>>

saw_line(columns) == [k \in range(columns) |-> <<k - 1, (k - 1) % 2>>]

middle_peak_line(columns) ==
    LET mid0 == columns \div 2
        mid == IF columns % 2 = 0 THEN {mid0, mid0 - 1} ELSE {mid0}
    IN  [k \in range(columns) |-> IF (k - 1) \in mid THEN <<k - 1, 1>> ELSE <<k - 1, 0>>]

\* a plausible slip: the heights are negated but the line is not moved back
flip_line_no_shift(line) ==
    [k \in 1..Len(line) |-> <<line[k][1], line[k][2] * (-1)>>]

flip_line(line) ==
    LET max_y == Max({line[k][2] : k \in 1..Len(line)})
    IN  [k \in 1..Len(line) |-> <<line[k][1], line[k][2] * (-1) + max_y>>]

all_horizontal_lines(rows, columns) ==
    LET horizontal == horizontal_line(columns)
    IN  << [y \in range(rows) |-> shift_points(horizontal, <<0, y - 1>>)] >>

\* a plausible slip: one shift too many
all_triangle_lines_extra_shift(rows, columns) ==
    LET triangle == triangle_line(columns)
        flip_triangle == flip_line(triangle)
        shifts == rows - triangle[(Len(triangle) \div 2) + 1][2] + 1
    IN  << [y \in range(shifts) |-> shift_points(triangle, <<0, y - 1>>)],
           [y \in range(shifts) |-> shift_points(flip_triangle, <<0, y - 1>>)] >>

all_triangle_lines(rows, columns) ==
    LET triangle == triangle_line(columns)
        flip_triangle == flip_line(triangle)
        shifts == rows - triangle[(Len(triangle) \div 2) + 1][2]
    IN  << [y \in range(shifts) |-> shift_points(triangle, <<0, y - 1>>)],
           [y \in range(shifts) |-> shift_points(flip_triangle, <<0, y - 1>>)] >>

\* a plausible slip: shifted as often as the horizontals
all_dip_lines_rows_shifts(rows, columns) ==
    LET dip == dip_line(columns)
        flip_dip == flip_line(dip)
    IN  << [y \in range(rows) |-> shift_points(dip, <<0, y - 1>>)],
           [y \in range(rows) |-> shift_points(flip_dip, <<0, y - 1>>)] >>

all_dip_lines(rows, columns) ==
    LET dip == dip_line(columns)
        flip_dip == flip_line(dip)
    IN  << [y \in range(rows - 1) |-> shift_points(dip, <<0, y - 1>>)],
           [y \in range(rows - 1) |-> shift_points(flip_dip, <<0, y - 1>>)] >>

all_saw_lines(rows, columns) ==
    LET saw == saw_line(columns)
        flip_saw == flip_line(saw)
    IN  << [y \in range(rows - 1) |-> shift_points(saw, <<0, y - 1>>)],
           [y \in range(rows - 1) |-> shift_points(flip_saw, <<0, y - 1>>)] >>

all_middle_peak_lines(rows, columns) ==
    LET middle_peak == middle_peak_line(columns)
        flip_middle_peak == flip_line(middle_peak)
    IN  << [y \in range(rows - 1) |-> shift_points(middle_peak, <<0, y - 1>>)],
           [y \in range(rows - 1) |-> shift_points(flip_middle_peak, <<0, y - 1>>)] >>

\* (all_horizontal, all_triangle, all_dip, all_saw, all_middle_peak)
generate_lines(rows, columns) ==
    << all_horizontal_lines(rows, columns),
       all_triangle_lines(rows, columns),
       all_dip_lines(rows, columns),
       all_saw_lines(rows, columns),
       all_middle_peak_lines(rows, columns) >>

-----------------------------------------------------------------------------
(* Score engine *)

get_values(ls, positions) ==
    [k \in 1..Len(positions) |-> ls[positions[k][2] + 1][positions[k][1] + 1]]

\* the first loop of symbols_equal: the item to compare to
first_of(ls) ==
    LET plain == {k \in 1..Len(ls) : ~isinstance_WildSymbol(ls[k])}
    IN  IF plain = {} THEN ls[1] ELSE ls[Min(plain)]

\* the second loop of symbols_equal: how many items are continuously equal
RECURSIVE count_equal(_, _, _)
count_equal(ls, first, k) ==
    IF k > Len(ls) THEN 0
    ELSE IF eq(ls[k], first) THEN 1 + count_equal(ls, first, k + 1)
    ELSE 0

\* a plausible slip: the comparison item is always the first item
symbols_equal_first_item(ls) ==
    Prefix(ls, count_equal(ls, ls[1], 1))

symbols_equal(ls) ==
    LET first == first_of(ls)
        equal == count_equal(ls, first, 1)
    IN  Prefix(ls, equal)

calculate_value(slots, multiplier) ==
    SumSeq([k \in 1..Len(slots) |-> slots[k].value]) * multiplier

\* a plausible slip: a run must be longer than 3
calculate_score_logic_longer_than_3(symbols) ==
    LET equal_slots == symbols_equal(symbols)
        sc == IF Len(equal_slots) > 3 THEN calculate_value(equal_slots, 1) ELSE 0
    IN  <<sc, Prefix(symbols, Len(equal_slots))>>

\* (score, symbols[:len(equal_slots)])
calculate_score_logic(symbols) ==
    LET equal_slots == symbols_equal(symbols)
        sc == IF Len(equal_slots) >= 3 THEN calculate_value(equal_slots, 1) ELSE 0
    IN  <<sc, Prefix(symbols, Len(equal_slots))>>

\* the rows of all line types and statuses, in the order the loops visit them
rows_of(lines) ==
    Concat([t \in 1..Len(lines) |-> Concat(lines[t])])

RECURSIVE score_loop(_, _, _, _)
score_loop(slots, rows, total, to_draw) ==
    IF rows = <<>> THEN <<total, to_draw>>
    ELSE LET symbols == get_values(slots, rows[1])
             r == calculate_score_logic(symbols)
         IN  score_loop(slots, Tail(rows), total + r[1],
                        IF r[1] > 0 THEN Append(to_draw, r[2]) ELSE to_draw)

\* (total_score, symbols_to_draw)
calculate_score(slots, lines) == score_loop(slots, rows_of(lines), 0, <<>>)

-----------------------------------------------------------------------------
(* Reel engine: catalog loading and roll generation *)

\* the listing of images/symbols; a name holding "wild" is the wildcard's
img_files == <<"bell.png", "cherry.png", "wild.png">>

has_wild(filename) == filename \in {"wild.png"}

SYMBOL_SIZE == <<100, 100>>

\* the symbols list: the ordinary symbols twice, then the wildcards
load_images(files, symbol_size) ==
    LET plain == SelectSeq([k \in 1..Len(files) |-> k - 1],
                           LAMBDA img : ~has_wild(files[img + 1]))
        wilds == SelectSeq(files, has_wild)
        gv == generate_values(Len(plain), 5, 8, 30, 3)
        imgs == [k \in 1..Len(plain) |->
                    NewSymbol("SlotSymbol", plain[k], gv.values[k], symbol_size)]
        wild_syms == [w \in 1..Len(wilds) |->
                    NewSymbol("WildSymbol", (-(w - 1)) - 1, gv.wild_val, symbol_size)]
    IN  imgs \o imgs \o wild_syms

symbols == load_images(img_files, SYMBOL_SIZE)

\* the runs of the random generator that are told apart: seeds 0..MaxSeed
MaxSeed == 7

\* the value randint(0, n - 1) returns for item j of column i, in the run of
\* the generator picked by seed (i and j count from 0)
randint(seed, i, j, n) ==
    ((seed \div 4) + (seed % 2) * i + ((seed \div 2) % 2) * j) % n

\* one list per column, each of rolls copies of random items of ls
generate_roll(ls, columns, rolls_, seed) ==
    list([i \in range(columns) |->
            list([j \in range(rolls_) |->
                    ls[randint(seed, i - 1, j - 1, Len(ls)) + 1]])])

-----------------------------------------------------------------------------
(* Reel engine and grid layout *)

\* positions are counted in units of 1/Q pixel
Q == 4

screen_size == <<600, 600>>

update_slots(slots, new_slots) ==
    list([column \in 1..Len(slots) |-> new_slots[column] \o slots[column]])

\* a plausible slip: the test of the filter is inverted
del_out_of_bounds_keeps_fallen(slots, lower_bound) ==
    list([column \in 1..Len(slots) |->
            SelectSeq(slots[column], LAMBDA symbol : symbol.y > lower_bound)])

del_out_of_bounds(slots, lower_bound) ==
    list([column \in 1..Len(slots) |->
            SelectSeq(slots[column], LAMBDA symbol : ~(symbol.y > lower_bound))])

\* a plausible slip: the list of speed factors is not reversed
move_symbols_not_reversed(slots, rows, top_fix, speed) ==
    LET speed_factors == [column \in 1..Len(slots) |-> column]
    IN  list([column \in 1..Len(slots) |->
            IF Len(slots[column]) = rows
            THEN LET y_diff == top_fix - slots[column][1].y
                 IN  list([k \in 1..Len(slots[column]) |->
                        set_y(slots[column][k], slots[column][k].y + y_diff)])
            ELSE LET column_speed ==
                        (Q * (speed_factors[column] * speed) * Len(slots[column])) \div 4
                 IN  list([k \in 1..Len(slots[column]) |->
                        set_y(slots[column][k], slots[column][k].y + column_speed)])])

\* a plausible slip: the columns at the target amount are not skipped
move_symbols_no_skip(slots, rows, top_fix, speed) ==
    LET speed_factors == [column \in 1..Len(slots) |-> Len(slots) - (column - 1)]
    IN  list([column \in 1..Len(slots) |->
            LET column_speed ==
                    (Q * (speed_factors[column] * speed) * Len(slots[column])) \div 4
            IN  list([k \in 1..Len(slots[column]) |->
                    set_y(slots[column][k], slots[column][k].y + column_speed)])])

\* the slots after the move (the source moves the symbols in place)
move_symbols(slots, rows, top_fix, speed) ==
    LET speed_factors == [column \in 1..Len(slots) |-> Len(slots) - (column - 1)]
    IN  list([column \in 1..Len(slots) |->
            IF Len(slots[column]) = rows
            THEN LET y_diff == top_fix - slots[column][1].y
                 IN  list([k \in 1..Len(slots[column]) |->
                        set_y(slots[column][k], slots[column][k].y + y_diff)])
            ELSE LET column_speed ==
                        (Q * (speed_factors[column] * speed) * Len(slots[column])) \div 4
                 IN  list([k \in 1..Len(slots[column]) |->
                        set_y(slots[column][k], slots[column][k].y + column_speed)])])

\* a plausible slip: the spacing step adds to the position the symbol has
position_slots_relative(slots, rows, slot_size, offset) ==
    LET grid_width == slot_size[1] * Len(slots) + (Len(slots) - 1) * offset
        grid_height == slot_size[2] * rows + (rows - 1) * offset
        x_offset == ((Q * screen_size[1]) \div 2) - ((Q * grid_width) \div 2)
        horizontal_whitespace_width ==
            ((Q * screen_size[2]) \div 2) - ((Q * grid_height) \div 2)
        y_offset == horizontal_whitespace_width + Q * grid_height
        moved ==
            list([column \in 1..Len(slots) |->
                LET num_rows == Len(slots[column])
                    total_column_height ==
                        num_rows * slot_size[2] + (num_rows - 1) * offset
                    final_y_offset == (-(Q * total_column_height)) + y_offset
                IN  list([symbol \in 1..Len(slots[column]) |->
                        LET current_symbol == slots[column][symbol]
                            x == Q * ((column - 1) * (current_symbol.width + offset))
                            y == Q * ((symbol - 1) * (current_symbol.height + offset))
                        IN  set_pos(current_symbol,
                                    <<current_symbol.x + x + x_offset,
                                      current_symbol.y + y + final_y_offset>>)])])
    IN  <<moved, <<horizontal_whitespace_width, x_offset>>>>

\* <<the slots after positioning (the source moves the symbols in place),
\*   (horizontal_whitespace_width, vertical_whitespace_width)>>
position_slots(slots, rows, slot_size, offset) ==
    LET grid_width == slot_size[1] * Len(slots) + (Len(slots) - 1) * offset
        grid_height == slot_size[2] * rows + (rows - 1) * offset
        screen_width == screen_size[1]
        screen_height == screen_size[2]
        x_offset == ((Q * screen_width) \div 2) - ((Q * grid_width) \div 2)
        vertical_whitespace_width == x_offset
        horizontal_whitespace_width ==
            ((Q * screen_height) \div 2) - ((Q * grid_height) \div 2)
        y_offset == horizontal_whitespace_width + Q * grid_height
        spaced ==
            list([column \in 1..Len(slots) |->
                list([symbol \in 1..Len(slots[column]) |->
                    LET current_symbol == slots[column][symbol]
                        x == Q * ((column - 1) * (current_symbol.width + offset))
                        y == Q * ((symbol - 1) * (current_symbol.height + offset))
                    IN  set_pos(current_symbol, <<x, y>>)])])
        moved ==
            list([column \in 1..Len(spaced) |->
                LET num_rows == Len(spaced[column])
                    total_column_height ==
                        num_rows * slot_size[2] + (num_rows - 1) * offset
                    final_y_offset == (-(Q * total_column_height)) + y_offset
                IN  list([symbol \in 1..Len(spaced[column]) |->
                        LET current_symbol == spaced[column][symbol]
                        IN  set_y(set_x(current_symbol, current_symbol.x + x_offset),
                                  current_symbol.y + final_y_offset)])])
    IN  <<moved, <<horizontal_whitespace_width, vertical_whitespace_width>>>>

\* flip_2d on a list of columns; the IndexError is the one the exception
\* handler's own new_ls[item] raises when there are more rows than columns
flip_2d(ls) ==
    LET biggest == Max({Len(ls[k]) : k \in 1..Len(ls)})
    IN  IF biggest > Len(ls)
        THEN [error |-> "IndexError", new_ls |-> <<>>]
        ELSE [error |-> "none",
              new_ls |-> [item \in 1..Len(ls) |->
                            IF item <= biggest
                            THEN [sub_list \in 1..Len(ls) |->
                                    IF item <= Len(ls[sub_list])
                                    THEN ls[sub_list][item]
                                    ELSE "None"]
                            ELSE <<>>]]

-----------------------------------------------------------------------------
(* main(): set up and the game loop *)

costs == <<4, 8, 14, 20, 26>>

ROWS == 4

COLUMNS == 5

SYMBOL_OFFSET == 10

extra_rows == 20

whitespace ==
    position_slots(generate_roll(symbols, COLUMNS, ROWS, 0),
                   ROWS, SYMBOL_SIZE, SYMBOL_OFFSET)[2]

lines == generate_lines(ROWS, COLUMNS)

selected_lines == Len(lines)

\* the player stops asking for spins once the balance exceeds MaxBalance
MaxBalance == 100

\* at most MaxEvents events are polled in one tick
MaxEvents == 1

Events ==
    { [type |-> "QUIT", key |-> "none"],
      [type |-> "KEYDOWN", key |-> "K_SPACE"],
      [type |-> "KEYDOWN", key |-> "K_RETURN"],
      [type |-> "MOUSEBUTTONDOWN", key |-> "none"] }

EventLists == UNION {[1..n -> Events] : n \in 0..MaxEvents}

Init ==
    /\ pc = "events"
    /\ status = 0
    /\ total_score = 100
    /\ score = 0
    /\ \E seed \in 0..MaxSeed :
          rolls = position_slots(generate_roll(symbols, COLUMNS, ROWS, seed),
                                 ROWS, SYMBOL_SIZE, SYMBOL_OFFSET)[1]
    /\ time = 0
    /\ slots_to_draw = <<>>
    /\ slot_line_index = 0
    /\ events = <<>>
    /\ fn = "none"
    /\ arg = <<>>
    /\ res = <<>>

\* a plausible slip: the key is honoured whatever the status
on_event_any_status(st, event, seed) ==
    IF event.type = "QUIT"
    THEN [st EXCEPT !.exited = TRUE]
    ELSE IF event.type = "KEYDOWN" /\ event.key = "K_SPACE"
         THEN [st EXCEPT
                 !.total_score = IF st.total_score >= costs[selected_lines]
                                 THEN st.total_score - costs[selected_lines]
                                 ELSE st.total_score,
                 !.rolls = position_slots(
                               update_slots(st.rolls,
                                   generate_roll(symbols, COLUMNS, extra_rows, seed)),
                               ROWS, SYMBOL_SIZE, SYMBOL_OFFSET)[1],
                 !.status = 1]
         ELSE st

\* a plausible slip: the cost is taken without looking at the balance
on_event_always_pays(st, event, seed) ==
    IF event.type = "QUIT"
    THEN [st EXCEPT !.exited = TRUE]
    ELSE IF event.type = "KEYDOWN" /\ st.status = 0 /\ event.key = "K_SPACE"
         THEN [st EXCEPT
                 !.total_score = st.total_score - costs[selected_lines],
                 !.rolls = position_slots(
                               update_slots(st.rolls,
                                   generate_roll(symbols, COLUMNS, extra_rows, seed)),
                               ROWS, SYMBOL_SIZE, SYMBOL_OFFSET)[1],
                 !.status = 1]
         ELSE st

\* the body of the event loop for one event, on the locals it reads and writes
on_event(st, event, seed) ==
    IF event.type = "QUIT"
    THEN [st EXCEPT !.exited = TRUE]
    ELSE IF event.type = "KEYDOWN" /\ st.status = 0
         THEN IF event.key = "K_SPACE"
              THEN LET paid == IF st.total_score >= costs[selected_lines]
                               THEN st.total_score - costs[selected_lines]
                               ELSE st.total_score
                       new_rolls == generate_roll(symbols, COLUMNS, extra_rows, seed)
                       updated == update_slots(st.rolls, new_rolls)
                   IN  [st EXCEPT
                           !.total_score = paid,
                           !.rolls = position_slots(updated, ROWS, SYMBOL_SIZE,
                                                    SYMBOL_OFFSET)[1],
                           !.status = 1]
              ELSE st
         ELSE st

\* for event in pygame.event.get(); exit() ends the loop and the program
RECURSIVE event_loop(_, _, _)
event_loop(st, events_, seed) ==
    IF events_ = <<>> \/ st.exited
    THEN st
    ELSE event_loop(on_event(st, events_[1], seed), Tail(events_), seed)

spin_asked(events_) ==
    \E k \in 1..Len(events_) : events_[k].type = "KEYDOWN" /\ events_[k].key = "K_SPACE"

\* the events of one tick are polled and handled
PollEvents ==
    /\ pc = "events"
    /\ \E events_ \in EventLists :
          /\ spin_asked(events_) => total_score <= MaxBalance
          /\ \E seed \in IF spin_asked(events_) /\ status = 0 THEN 0..MaxSeed ELSE {0} :
                LET st == event_loop([status |-> status, total_score |-> total_score,
                                      rolls |-> rolls, exited |-> FALSE], events_, seed)
                IN  /\ status' = st.status
                    /\ total_score' = st.total_score
                    /\ rolls' = st.rolls
                    /\ pc' = IF st.exited THEN "exited" ELSE "update"
          /\ events' = events_
    /\ UNCHANGED <<score, time, slots_to_draw, slot_line_index, call_vars>>

\* status == 0: nothing but the drawing
Idle ==
    /\ pc = "update"
    /\ status = 0
    /\ pc' = "events"
    /\ events' = <<>>
    /\ UNCHANGED <<status, total_score, score, rolls, time, slots_to_draw,
                   slot_line_index, call_vars>>

\* status == 1: move the columns, delete the rolls out of the margins, and
\* go on to the score once every column is down to ROWS
Rolling ==
    /\ pc = "update"
    /\ status = 1
    /\ LET moved == move_symbols(rolls, ROWS, whitespace[1], 2)
           lower_bound == Q * screen_size[2] - whitespace[2] - Q * (SYMBOL_OFFSET * 3)
           kept == del_out_of_bounds(moved, lower_bound)
           rows_to_target == [k \in 1..Len(kept) |-> Len(kept[k]) - ROWS]
       IN  IF SumSeq(rows_to_target) = 0
           THEN /\ rolls' = position_slots(kept, ROWS, SYMBOL_SIZE, SYMBOL_OFFSET)[1]
                /\ status' = 2
           ELSE /\ rolls' = kept
                /\ status' = 1
    /\ pc' = "events"
    /\ events' = <<>>
    /\ UNCHANGED <<total_score, score, time, slots_to_draw, slot_line_index, call_vars>>

\* the symbols of the grid, each with the place it sits at as its reference
with_refs(slots) ==
    [column \in 1..Len(slots) |->
        [symbol \in 1..Len(slots[column]) |->
            slots[column][symbol] @@ [ref |-> <<column, symbol>>]]]

refs_of(runs) ==
    [k \in 1..Len(runs) |-> [m \in 1..Len(runs[k]) |-> runs[k][m].ref]]

\* a plausible slip: the status is not moved on after the score
Scoring_keeps_status ==
    /\ pc = "update"
    /\ status = 2
    /\ LET visible_slots == flip_2d(with_refs(rolls))
       IN  IF visible_slots.error = "IndexError"
           THEN /\ pc' = "crashed"
                /\ UNCHANGED <<status, score, slots_to_draw>>
           ELSE LET r == calculate_score(visible_slots.new_ls,
                                         Prefix(lines, selected_lines))
                IN  /\ score' = r[1]
                    /\ slots_to_draw' = refs_of(r[2])
                    /\ status' = 2
                    /\ pc' = "events"
    /\ events' = <<>>
    /\ UNCHANGED <<total_score, rolls, time, slot_line_index, call_vars>>

\* status == 2: the score of the settled grid and its winning runs
Scoring ==
    /\ pc = "update"
    /\ status = 2
    /\ LET visible_slots == flip_2d(with_refs(rolls))
       IN  IF visible_slots.error = "IndexError"
           THEN /\ pc' = "crashed"
                /\ UNCHANGED <<status, score, slots_to_draw>>
           ELSE LET r == calculate_score(visible_slots.new_ls,
                                         Prefix(lines, selected_lines))
                IN  /\ score' = r[1]
                    /\ slots_to_draw' = refs_of(r[2])
                    /\ status' = 3
                    /\ pc' = "events"
    /\ events' = <<>>
    /\ UNCHANGED <<total_score, rolls, time, slot_line_index, call_vars>>

\* symbol.set_margin(boolean) for every symbol of a run
set_margins(slots, run, boolean) ==
    list([column \in 1..Len(slots) |->
        list([symbol \in 1..Len(slots[column]) |->
            IF \E m \in 1..Len(run) : run[m] = <<column, symbol>>
            THEN set_margin(slots[column][symbol], boolean)
            ELSE slots[column][symbol]])])

\* a plausible slip: the margins of the previous line are not hidden
Highlighting_keeps_previous ==
    /\ pc = "update"
    /\ status = 3
    /\ IF slot_line_index >= Len(slots_to_draw)
       THEN /\ rolls' = IF Len(slots_to_draw) # 0
                        THEN set_margins(rolls, slots_to_draw[Len(slots_to_draw)], FALSE)
                        ELSE rolls
            /\ slot_line_index' = 0
            /\ status' = 0
            /\ time' = 0
            /\ total_score' = total_score + score
       ELSE IF time + 1 <= 90
            THEN /\ rolls' = set_margins(rolls, slots_to_draw[slot_line_index + 1], TRUE)
                 /\ time' = time + 1
                 /\ UNCHANGED <<slot_line_index, status, total_score>>
            ELSE /\ slot_line_index' = slot_line_index + 1
                 /\ time' = 0
                 /\ UNCHANGED <<rolls, status, total_score>>
    /\ pc' = "events"
    /\ events' = <<>>
    /\ UNCHANGED <<score, slots_to_draw, call_vars>>

\* status == 3: the margins of the winning runs, one run at a time
Highlighting ==
    /\ pc = "update"
    /\ status = 3
    /\ IF slot_line_index >= Len(slots_to_draw)
       THEN /\ rolls' = IF Len(slots_to_draw) # 0
                        THEN set_margins(rolls, slots_to_draw[Len(slots_to_draw)], FALSE)
                        ELSE rolls
            /\ slot_line_index' = 0
            /\ status' = 0
            /\ time' = 0
            /\ total_score' = total_score + score
       ELSE IF time + 1 <= 90
            THEN /\ rolls' = set_margins(
                                IF slot_line_index # 0
                                THEN set_margins(rolls, slots_to_draw[slot_line_index],
                                                 FALSE)
                                ELSE rolls,
                                slots_to_draw[slot_line_index + 1], TRUE)
                 /\ time' = time + 1
                 /\ UNCHANGED <<slot_line_index, status, total_score>>
            ELSE /\ slot_line_index' = slot_line_index + 1
                 /\ time' = 0
                 /\ UNCHANGED <<rolls, status, total_score>>
    /\ pc' = "events"
    /\ events' = <<>>
    /\ UNCHANGED <<score, slots_to_draw, call_vars>>

Next ==
    \/ PollEvents
    \/ Idle
    \/ Rolling
    \/ Scoring
    \/ Highlighting

Spec == Init /\ [][Next]_vars

-----------------------------------------------------------------------------
(* The module used as a library: one call of one of its pure functions *)

MaxAmount == 4

MaxRows == 5

MaxCols == 7

MaxLen == 5

\* the catalog of the scoring scenario: two ordinary symbols, two wildcards
SymA == NewSymbol("SlotSymbol", 0, 20, SYMBOL_SIZE)

SymB == NewSymbol("SlotSymbol", 1, 10, SYMBOL_SIZE)

Wild == NewSymbol("WildSymbol", -1, 5, SYMBOL_SIZE)

Wild2 == NewSymbol("WildSymbol", -2, 5, SYMBOL_SIZE)

TestSymbols == {SymA, SymB, Wild, Wild2}

TestLists == UNION {[1..n -> TestSymbols] : n \in 1..MaxLen}

\* the base line of each family
base_lines(columns) ==
    << horizontal_line(columns), triangle_line(columns), dip_line(columns),
       saw_line(columns), middle_peak_line(columns) >>

\* every line of a Line Set
lines_in(line_set) ==
    {line_set[t][o][s] : <<t, o, s>> \in
        {tos \in (1..5) \X (1..2) \X (1..MaxRows + 1) :
            /\ tos[2] <= Len(line_set[tos[1]])
            /\ tos[3] <= Len(line_set[tos[1]][tos[2]])}}

\* the row-major view visible[row][column] of a settled grid
row_major(grid, rows, columns) ==
    [r \in 1..rows |-> [c \in 1..columns |-> grid[c][r]]]

InitLibrary ==
    /\ pc = "imported"
    /\ status = 0
    /\ total_score = 0
    /\ score = 0
    /\ rolls = <<>>
    /\ time = 0
    /\ slots_to_draw = <<>>
    /\ slot_line_index = 0
    /\ events = <<>>
    /\ fn = "none"
    /\ arg = <<>>
    /\ res = <<>>

Call_generate_values ==
    \E amount \in (-MaxAmount)..MaxAmount, big_vals \in (-MaxAmount)..MaxAmount,
       wild_val \in {-5, 0, 5}, default_val \in {-8, 8}, max_val \in {-30, 0, 30} :
        /\ fn = "none"
        /\ fn' = "generate_values"
        /\ arg' = <<amount, wild_val, default_val, max_val, big_vals>>
        /\ res' = generate_values(amount, wild_val, default_val, max_val, big_vals)
        /\ UNCHANGED game_vars

Call_generate_lines ==
    \E rows \in 1..MaxRows, columns \in 1..MaxCols :
        /\ fn = "none"
        /\ fn' = "generate_lines"
        /\ arg' = <<rows, columns>>
        /\ res' = generate_lines(rows, columns)
        /\ UNCHANGED game_vars

\* flip_line on a generated line, and again on what it returned
Call_flip_line ==
    \E rows \in 1..MaxRows, columns \in 1..MaxCols :
        \E line \in lines_in(generate_lines(rows, columns))
                    \cup {base_lines(columns)[t] : t \in 1..5} :
            /\ fn = "none"
            /\ fn' = "flip_line"
            /\ arg' = line
            /\ res' = <<flip_line(line), flip_line(flip_line(line))>>
            /\ UNCHANGED game_vars

Call_eq ==
    \E a \in TestSymbols, b \in TestSymbols :
        /\ fn = "none"
        /\ fn' = "eq"
        /\ arg' = <<a, b>>
        /\ res' = eq(a, b)
        /\ UNCHANGED game_vars

Call_symbols_equal ==
    \E ls \in TestLists :
        /\ fn = "none"
        /\ fn' = "symbols_equal"
        /\ arg' = ls
        /\ res' = symbols_equal(ls)
        /\ UNCHANGED game_vars

Call_calculate_score_logic ==
    \E ls \in TestLists :
        /\ fn = "none"
        /\ fn' = "calculate_score_logic"
        /\ arg' = ls
        /\ res' = calculate_score_logic(ls)
        /\ UNCHANGED game_vars

\* calculate_score on a settled grid and a prefix of its Line Set
Call_calculate_score ==
    \E rows \in 1..MaxRows, columns \in 1..MaxCols, seed \in 0..MaxSeed,
       selected \in 1..5 :
        LET ls == <<SymA, SymB, SymA, SymB, Wild>>
            visible == row_major(generate_roll(ls, columns, rows, seed), rows, columns)
            line_set == Prefix(generate_lines(rows, columns), selected)
        IN  /\ fn = "none"
            /\ fn' = "calculate_score"
            /\ arg' = <<visible, line_set>>
            /\ res' = calculate_score(visible, line_set)
            /\ UNCHANGED game_vars

\* generate_roll, then one of the setters on one of the instances
Call_set_pos ==
    \E seed \in 0..MaxSeed, i \in 1..2, j \in 1..2,
       method \in {"set_x", "set_y", "set_pos"}, pos \in {<<50, 70>>, <<0, 70>>} :
        LET generated == generate_roll(symbols, 2, 2, seed)
            rects == load_image_rects(symbols)
            self == generated[i][j]
            moved == IF method = "set_x" THEN set_x(self, pos[1])
                     ELSE IF method = "set_y" THEN set_y(self, pos[2])
                     ELSE set_pos(self, pos)
            moved_rects == IF method = "set_x" THEN set_x_rect(rects, self, pos[1])
                           ELSE IF method = "set_y" THEN set_y_rect(rects, self, pos[2])
                           ELSE set_pos_rect(rects, self, pos)
        IN  /\ fn = "none"
            /\ fn' = "set_pos"
            /\ arg' = <<generated, rects, <<i, j>>, method, pos>>
            /\ res' = <<[generated EXCEPT ![i][j] = moved], moved_rects>>
            /\ UNCHANGED game_vars

\* position_slots on a settled grid that position_slots has laid out before
Call_position_slots ==
    \E rows \in 1..MaxRows, columns \in 1..MaxCols, seed \in 0..MaxSeed,
       slot_size \in {SYMBOL_SIZE, <<75, 75>>}, offset \in {SYMBOL_OFFSET, 15} :
        LET generated == generate_roll(symbols, columns, rows, seed)
            first == position_slots(generated, rows, slot_size, offset)
        IN  /\ fn = "none"
            /\ fn' = "position_slots"
            /\ arg' = <<first[1], rows, slot_size, offset, first[2]>>
            /\ res' = position_slots(first[1], rows, slot_size, offset)
            /\ UNCHANGED game_vars

\* flip_2d on a settled grid of rows x columns
Call_flip_2d ==
    \E rows \in 1..MaxRows, columns \in 1..MaxCols, seed \in 0..MaxSeed :
        LET grid == generate_roll(symbols, columns, rows, seed)
        IN  /\ fn = "none"
            /\ fn' = "flip_2d"
            /\ arg' = <<grid, rows, columns>>
            /\ res' = flip_2d(grid)
            /\ UNCHANGED game_vars

NextLibrary ==
    \/ Call_flip_2d
    \/ Call_set_pos
    \/ Call_position_slots
    \/ Call_generate_values
    \/ Call_generate_lines
    \/ Call_flip_line
    \/ Call_eq
    \/ Call_symbols_equal
    \/ Call_calculate_score_logic
    \/ Call_calculate_score

SpecLibrary == InitLibrary /\ [][NextLibrary]_vars

-----------------------------------------------------------------------------
(* Properties of the pure functions, checked under SpecLibrary *)

is_wild(obj) == obj.sym_id < 0

\* the rule table of symbol equality
Matches(a, b) ==
    IF is_wild(a) = is_wild(b) THEN a.sym_id = b.sym_id ELSE TRUE

\* the comparison anchor of a payline: its first non-wildcard, else position 0
Anchor(ls) ==
    IF \A k \in 1..Len(ls) : is_wild(ls[k])
    THEN ls[1]
    ELSE ls[CHOOSE k \in 1..Len(ls) :
                /\ ~is_wild(ls[k])
                /\ \A m \in 1..(k - 1) : is_wild(ls[m])]

\* the length of the longest prefix whose instances all match the anchor
RunLength(ls) ==
    Max({n \in 0..Len(ls) : \A k \in 1..n : Matches(ls[k], Anchor(ls))})

LineScore(ls, multiplier) ==
    IF RunLength(ls) >= 3
    THEN SumSeq([k \in 1..RunLength(ls) |-> ls[k].value]) * multiplier
    ELSE 0

RECURSIVE SumOver(_, _)
SumOver(S, f) ==
    IF S = {} THEN 0
    ELSE LET e == CHOOSE e \in S : TRUE IN f[e] + SumOver(S \ {e}, f)

\* the (family, orientation, offset) positions of a Line Set
Positions(line_set) ==
    {tos \in (1..Len(line_set)) \X (1..2) \X (1..(MaxRows + 1)) :
        /\ tos[2] <= Len(line_set[tos[1]])
        /\ tos[3] <= Len(line_set[tos[1]][tos[2]])}

\* C3: a payline scores the sum of the values of its leading run, times the
\* multiplier (1), when the run has at least 3 instances and 0 otherwise;
\* calculate_score returns the sum of the line scores over the paylines of
\* the subset; [A(20), Wild(5), A(20)] scores 45 and [A(20), B(10), A(20)] 0.
C3_ScoreIsSumOfLeadingRuns ==
    /\ fn = "calculate_score_logic" => res[1] = LineScore(arg, 1)
    /\ fn = "calculate_score" =>
          res[1] = SumOver(Positions(arg[2]),
                      [tos \in Positions(arg[2]) |->
                          LineScore([k \in 1..Len(arg[2][tos[1]][tos[2]][tos[3]]) |->
                                        LET xy == arg[2][tos[1]][tos[2]][tos[3]][k]
                                        IN  arg[1][xy[2] + 1][xy[1] + 1]], 1)])
    /\ (fn = "calculate_score_logic" /\ arg = <<SymA, Wild, SymA>>) => res[1] = 45
    /\ (fn = "calculate_score_logic" /\ arg = <<SymA, SymB, SymA>>) => res[1] = 0

C3_Witness ==
    /\ fn = "calculate_score_logic"
    /\ arg = <<SymA, Wild, SymA>>
    /\ res[1] = 45

\* C4: symbols_equal returns the longest prefix of the payline in which
\* every instance equals the anchor (the first non-wildcard instance, or
\* position 0 when the line is all wildcards); [A, A, Wild, B, A] yields the
\* run (A, A, Wild).
C4_LongestPrefixEqualToAnchor ==
    fn = "symbols_equal" =>
        /\ res = SubSeq(arg, 1, RunLength(arg))
        /\ arg = <<SymA, SymA, Wild, SymB, SymA>> => res = <<SymA, SymA, Wild>>

C4_Witness ==
    /\ fn = "symbols_equal"
    /\ arg = <<Wild, SymA, SymA, Wild2, SymB>>
    /\ Len(res) = 4

\* C5: two ordinary symbols are equal iff their ids are equal; a wildcard
\* and an ordinary symbol are always equal, whichever is the left operand;
\* two wildcards are equal iff their ids are equal.
C5_EqualityRuleTable ==
    fn = "eq" => res = Matches(arg[1], arg[2])

C5_Witness ==
    /\ fn = "eq"
    /\ arg = <<SymA, Wild>>
    /\ res = TRUE

\* C6: every payline generate_lines returns has exactly `columns` pairs,
\* whose x values are 0, 1, ..., columns - 1 in that order and whose y
\* values lie within [0, rows - 1].
C6_PaylinesFitTheGrid ==
    fn = "generate_lines" =>
        /\ Len(res) = 5
        /\ \A tos \in Positions(res) :
              LET line == res[tos[1]][tos[2]][tos[3]]
              IN  /\ Len(line) = arg[2]
                  /\ \A k \in 1..Len(line) :
                        /\ line[k][1] = k - 1
                        /\ line[k][2] \in 0..(arg[1] - 1)

C6_Witness ==
    /\ fn = "generate_lines"
    /\ arg = <<4, 5>>
    /\ Cardinality(Positions(res)) = 26

MinY(line) == Min({line[k][2] : k \in 1..Len(line)})

MovedBy(line, dy) == [k \in 1..Len(line) |-> <<line[k][1], line[k][2] + dy>>]

\* C7 as stated: flip_line(flip_line(line)) == line for every generated
\* line (every base family line and every shifted payline).
C7_MirrorLaw ==
    fn = "flip_line" => res[2] = arg

\* C7 as amended: flip_line(flip_line(line)) is the line moved so that its
\* lowest y is 0; it is the line itself exactly when the line touches row 0.
C7_MirrorLawUpToOffset ==
    fn = "flip_line" =>
        /\ res[2] = MovedBy(arg, -MinY(arg))
        /\ res[2] = arg <=> MinY(arg) = 0

C7_Witness ==
    /\ fn = "flip_line"
    /\ arg = <<<<0, 0>>, <<1, 1>>, <<2, 2>>, <<3, 1>>, <<4, 0>>>>
    /\ res[1] = <<<<0, 2>>, <<1, 1>>, <<2, 0>>, <<3, 1>>, <<4, 2>>>>
    /\ res[2] = arg

\* the number of rows the base line of family t occupies, from its shape
RowsOccupied(t, columns) ==
    CASE t = 1 -> 1
      [] t = 2 -> ((columns - 1) \div 2) + 1
      [] t = 3 -> IF columns >= 3 THEN 2 ELSE 1
      [] t = 4 -> IF columns >= 2 THEN 2 ELSE 1
      [] t = 5 -> IF columns >= 3 THEN 2 ELSE 1

\* the height the generator takes a family to have
HeightUsed(t, columns) ==
    CASE t = 1 -> 1
      [] t = 2 -> ((columns - 1) \div 2) + 1
      [] OTHER -> 2

StraightFamily(line_set, rows) ==
    /\ Len(line_set[1]) = 1
    /\ Len(line_set[1][1]) = rows
    /\ \A s \in 1..Len(line_set[1][1]) :
          \A k \in 1..Len(line_set[1][1][s]) : line_set[1][1][s][k][2] = line_set[1][1][s][1][2]
    /\ {line_set[1][1][s][1][2] : s \in 1..Len(line_set[1][1])} = 0..(rows - 1)

OnePerOffset(line_set) ==
    \A tos \in Positions(line_set) :
        line_set[tos[1]][tos[2]][tos[3]] = MovedBy(line_set[tos[1]][tos[2]][1], tos[3] - 1)

\* C8 as stated: each orientation of a family yields exactly rows - (h - 1)
\* paylines, one per vertical offset, h being the number of rows the
\* family's base line occupies; the straight family yields rows paylines of
\* constant y, with y values {0, ..., rows - 1}.
C8_ShiftsPerFamily ==
    fn = "generate_lines" =>
        /\ \A t \in 1..5 : \A o \in 1..Len(res[t]) :
              Len(res[t][o]) = arg[1] - (RowsOccupied(t, arg[2]) - 1)
        /\ OnePerOffset(res)
        /\ StraightFamily(res, arg[1])

\* C8 as amended: each orientation yields max(0, rows - (h - 1)) paylines,
\* one per vertical offset, where h is 1 for the straight family, the peak's
\* height for the triangle family and 2 for the dip, saw and middle-peak
\* families at every column count; the straight family is as stated.
C8_ShiftsPerFamilyAsGenerated ==
    fn = "generate_lines" =>
        /\ \A t \in 1..5 : \A o \in 1..Len(res[t]) :
              Len(res[t][o]) = Max({0, arg[1] - (HeightUsed(t, arg[2]) - 1)})
        /\ \A t \in 2..5 : Len(res[t]) = 2
        /\ OnePerOffset(res)
        /\ StraightFamily(res, arg[1])

C8_Witness ==
    /\ fn = "generate_lines"
    /\ arg = <<4, 5>>
    /\ Len(res[1][1]) = 4
    /\ Len(res[2][1]) = 2
    /\ Len(res[3][2]) = 3

\* the entries of generate_values' list: the first n big ones, then defaults
ValuesAsDocumented(values, n, default_val, max_val, wild_val) ==
    /\ \A i \in 1..Len(values) :
          values[i] = IF i <= n THEN max_val - wild_val * (i - 1) ELSE default_val
    /\ \A i \in 1..(n - 1) : i + 1 <= Len(values) => values[i] >= values[i + 1]

\* C9 as stated: for all integer arguments generate_values returns exactly
\* `count` values without a validation error; the first min(big_value_slots,
\* count) are max_value - wildcard_value * i, non-increasing, the rest equal
\* default_value.
C9_ValuesForAllIntegers ==
    fn = "generate_values" =>
        /\ res.error = "none"
        /\ Len(res.values) = arg[1]
        /\ ValuesAsDocumented(res.values, Min({arg[5], arg[1]}), arg[3], arg[4], arg[2])

\* C9 as amended: for count >= 0 generate_values returns exactly `count`
\* values without a validation error, the first min(big_value_slots, count)
\* being max_value - wildcard_value * i and the rest default_value; the first
\* entries are non-increasing when wildcard_value >= 0; for count < 0 the
\* validation error is raised.
C9_ValuesForCountsFromZero ==
    fn = "generate_values" =>
        /\ arg[1] < 0 <=> res.error = "ValueError"
        /\ arg[1] >= 0 =>
              /\ Len(res.values) = arg[1]
              /\ \A i \in 1..Len(res.values) :
                    res.values[i] = IF i <= Min({arg[5], arg[1]})
                                    THEN arg[4] - arg[2] * (i - 1)
                                    ELSE arg[3]
        /\ (arg[1] >= 0 /\ arg[2] >= 0) =>
              ValuesAsDocumented(res.values, Min({arg[5], arg[1]}), arg[3], arg[4], arg[2])

C9_Witness ==
    /\ fn = "generate_values"
    /\ arg = <<4, 5, 8, 30, 3>>
    /\ res.values = <<30, 25, 20, 8>>

-----------------------------------------------------------------------------
(* Properties of the game loop, checked under Spec *)

\* C1: a spin command received in Idle while the balance is lower than the
\* cost of the selected line count changes nothing: the balance is not
\* deducted, the grid is not extended with new rolls, and the machine stays
\* Idle.
C1_InsufficientBalanceBlocksSpin ==
    [][(/\ pc = "events"
        /\ status = 0
        /\ total_score < costs[selected_lines]
        /\ spin_asked(events'))
       => (/\ total_score' = total_score
           /\ rolls' = rolls
           /\ status' = 0)]_vars

\* C2: a spin command polled while the machine is Rolling, Scoring or
\* Highlighting is ignored: the balance, the grid, the phase and everything
\* else the loop keeps are what they were before the poll, which is what they
\* are when the tick polls no event at all.
C2_SpinIgnoredUnlessIdle ==
    [][(/\ pc = "events"
        /\ status # 0
        /\ spin_asked(events'))
       => (/\ total_score' = total_score
           /\ rolls' = rolls
           /\ status' = status
           /\ score' = score
           /\ time' = time
           /\ slots_to_draw' = slots_to_draw
           /\ slot_line_index' = slot_line_index)]_vars

\* sum(max(0, len(col) - target_rows)) over the columns
Excess(slots) ==
    SumSeq([column \in 1..Len(slots) |-> Max({0, Len(slots[column]) - ROWS})])

\* a spin command was polled in a tick of a roll that had already trimmed rows
C2_Witness ==
    /\ pc = "update"
    /\ status = 1
    /\ spin_asked(events)
    /\ Excess(rolls) < COLUMNS * extra_rows

\* the lower_bound the rolling tick trims at
LowerBound == Q * screen_size[2] - whitespace[2] - Q * (SYMBOL_OFFSET * 3)

\* the way the symbols of the columns still rolling have left to the bound
Remaining(slots) ==
    SumSeq([column \in 1..Len(slots) |->
              IF Len(slots[column]) > ROWS
              THEN SumSeq([k \in 1..Len(slots[column]) |->
                             LowerBound + 1 - slots[column][k].y])
              ELSE 0])

\* C10: while the machine is Rolling the total excess rows never increase from
\* one step to the next; every advance-then-trim tick strictly decreases a
\* natural number (the way the rolling symbols have left to the bound), so
\* the excess is zero after finitely many ticks; and a tick ends with zero
\* excess exactly when it leaves Rolling for Scoring.
C10_ExcessFallsToZero ==
    [][/\ status = 1 => Excess(rolls') <= Excess(rolls)
       /\ (pc = "update" /\ status = 1) =>
             /\ Remaining(rolls') >= 0
             /\ Remaining(rolls') < Remaining(rolls)
             /\ status' \in {1, 2}
             /\ Excess(rolls') = 0 <=> status' = 2]_vars

\* a roll has just settled: no excess rows, and the machine is in Scoring
C10_Witness ==
    /\ pc = "events"
    /\ status = 2
    /\ Excess(rolls) = 0
    /\ \A column \in 1..Len(rolls) : Len(rolls[column]) = ROWS

\* C11: no column ever holds fewer than ROWS instances; a column that is
\* down to ROWS during a roll stays at ROWS; so the settle test
\* sum(len(col) - ROWS) == 0 passes exactly when every column holds ROWS
\* instances, and every column holds exactly ROWS instances whenever the
\* machine is Idle, Scoring or Highlighting.
C11_ColumnsNeverBelowRows ==
    [][/\ \A column \in 1..Len(rolls) : Len(rolls[column]) >= ROWS
       /\ \A column \in 1..Len(rolls') : Len(rolls'[column]) >= ROWS
       /\ status \in {0, 2, 3} =>
             \A column \in 1..Len(rolls) : Len(rolls[column]) = ROWS
       /\ status' \in {0, 2, 3} =>
             \A column \in 1..Len(rolls') : Len(rolls'[column]) = ROWS
       /\ (pc = "update" /\ status = 1) =>
             /\ Len(rolls') = Len(rolls)
             /\ \A column \in 1..Len(rolls) :
                   Len(rolls[column]) = ROWS => Len(rolls'[column]) = ROWS
             /\ status' = 2 <=>
                   \A column \in 1..Len(rolls') : Len(rolls'[column]) = ROWS]_vars

\* mid-roll: the first column is down to ROWS and has been kept there while
\* the last column still holds extra rows
C11_Witness ==
    /\ pc = "update"
    /\ status = 1
    /\ Len(rolls[1]) = ROWS
    /\ Len(rolls[COLUMNS - 1]) = ROWS
    /\ Len(rolls[COLUMNS]) > ROWS
    /\ Len(rolls[COLUMNS]) < ROWS + extra_rows

-----------------------------------------------------------------------------
(* Properties of the symbol instances, checked under SpecLibrary *)

\* C12: every instance generate_roll produces has its own position state:
\* set_x, set_y or set_pos on one instance changes neither the (x, y) nor the
\* rectangle position of any other instance, copies of the same catalog entry
\* included.
C12_IndependentPositionState ==
    fn = "set_pos" =>
        \A i \in 1..Len(arg[1]) : \A j \in 1..Len(arg[1][i]) :
            <<i, j>> # arg[3] =>
                /\ res[1][i][j].x = arg[1][i][j].x
                /\ res[1][i][j].y = arg[1][i][j].y
                /\ res[2][rect_of(res[1][i][j])] = arg[2][rect_of(arg[1][i][j])]

-----------------------------------------------------------------------------
(* Properties of the grid layout and of flip_2d, checked under SpecLibrary *)

\* C13: position_slots called a second time on a settled grid with the same
\* rows, instance size and spacing leaves the (x, y) of every instance
\* unchanged and returns the same margins.
C13_PositionSlotsIdempotent ==
    fn = "position_slots" =>
        /\ res[2] = arg[5]
        /\ Len(res[1]) = Len(arg[1])
        /\ \A column \in 1..Len(arg[1]) :
              /\ Len(res[1][column]) = Len(arg[1][column])
              /\ \A symbol \in 1..Len(arg[1][column]) :
                    /\ res[1][column][symbol].x = arg[1][column][symbol].x
                    /\ res[1][column][symbol].y = arg[1][column][symbol].y

\* the second call on the 5 x 4 grid of the game, laid out at its 85 px top
\* and 30 px left margins
C13_Witness ==
    /\ fn = "position_slots"
    /\ Len(arg[1]) = COLUMNS
    /\ arg[2] = ROWS
    /\ arg[3] = SYMBOL_SIZE
    /\ arg[4] = SYMBOL_OFFSET
    /\ arg[5] = <<Q * 85, Q * 30>>
    /\ arg[1][1][1].x = Q * 30
    /\ arg[1][1][1].y = Q * 85
    /\ res[1][COLUMNS][ROWS].x = Q * 470
    /\ res[1][COLUMNS][ROWS].y = Q * 415

\* C17: for a settled grid of any shape, rows > columns included, flip_2d
\* returns without error a view with visible[r][c] = grid[c][r] for every row
\* r and column c, so that get_values reads every coordinate of every
\* generated payline.
C17_FlipAnyShape ==
    fn = "flip_2d" =>
        /\ res.error = "none"
        /\ \A r \in 1..arg[2] : \A c \in 1..arg[3] :
              res.new_ls[r][c] = arg[1][c][r]
        /\ \A tos \in Positions(generate_lines(arg[2], arg[3])) :
              LET line == generate_lines(arg[2], arg[3])[tos[1]][tos[2]][tos[3]]
              IN  \A k \in 1..Len(line) :
                     get_values(res.new_ls, line)[k] =
                         arg[1][line[k][1] + 1][line[k][2] + 1]

-----------------------------------------------------------------------------
(* Properties of the phases of the game loop, checked under Spec *)

\* the rolling tick brings the column down to ROWS
ReachesTarget(column) ==
    /\ pc = "update"
    /\ status = 1
    /\ Len(rolls[column]) > ROWS
    /\ Len(rolls'[column]) = ROWS

\* C14: each column stops later than the one to its right: of two adjacent
\* columns c and c + 1, column c + 1 reaches ROWS at a strictly earlier tick
\* than column c, so it is at ROWS already in the tick that brings c to ROWS.
C14_StopsLaterThanRightNeighbour ==
    [][\A c \in 1..(COLUMNS - 1) :
          ReachesTarget(c) => Len(rolls[c + 1]) = ROWS]_vars

\* C14 as amended: each column stops later than the one to its left: of two
\* adjacent columns c and c + 1, column c reaches ROWS at a strictly earlier
\* tick than column c + 1, so it is at ROWS already in the tick that brings
\* c + 1 to ROWS.
C14_StopsLaterThanLeftNeighbour ==
    [][\A c \in 1..(COLUMNS - 1) :
          /\ ReachesTarget(c + 1) => Len(rolls[c]) = ROWS
          /\ (status' = 1 /\ Len(rolls'[c + 1]) = ROWS) => Len(rolls'[c]) = ROWS]_vars

\* the columns 1 .. 3 have stopped, the columns 4 and 5 are still rolling
C14_Witness ==
    /\ pc = "events"
    /\ status = 1
    /\ \A c \in 1..3 : Len(rolls[c]) = ROWS
    /\ \A c \in 4..COLUMNS : Len(rolls[c]) > ROWS

\* the places of the instances whose highlight flag is set
Flagged(slots) ==
    UNION {{<<column, row>> : row \in {k \in 1..Len(slots[column]) :
                                          slots[column][k].margin}} :
              column \in 1..Len(slots)}

\* the places of the instances of winning run number index (from 0)
RunAt(index) ==
    IF index + 1 \in 1..Len(slots_to_draw)
    THEN {slots_to_draw[index + 1][m] : m \in 1..Len(slots_to_draw[index + 1])}
    ELSE {}

\* C15: in Highlighting every instance whose flag is set belongs to the run at
\* the current index or to the run just before it; from its first tick on
\* exactly the current run is marked, the index moves on by one only after
\* the run has been marked for 90 ticks, and no instance has its flag set
\* when the machine is Idle (nor while it rolls or scores).
C15_RunsShownOneAtATime ==
    [][/\ status' = 3 =>
             LET prev == {slots_to_draw'[slot_line_index'][m] :
                             m \in 1..(IF slot_line_index' = 0 THEN 0
                                       ELSE Len(slots_to_draw'[slot_line_index']))}
                 cur == IF slot_line_index' < Len(slots_to_draw')
                        THEN {slots_to_draw'[slot_line_index' + 1][m] :
                                 m \in 1..Len(slots_to_draw'[slot_line_index' + 1])}
                        ELSE {}
             IN  /\ Flagged(rolls') \subseteq (cur \cup prev)
                 /\ time' >= 1 => Flagged(rolls') = cur
                 /\ time' \in 0..90
       /\ status' \in {0, 1, 2} => Flagged(rolls') = {}
       /\ (pc = "update" /\ status = 3) =>
             /\ slot_line_index' \in {0, slot_line_index, slot_line_index + 1}
             /\ slot_line_index' = slot_line_index + 1 =>
                   /\ time = 90
                   /\ Flagged(rolls) = RunAt(slot_line_index)
                   /\ rolls' = rolls
             /\ status' = 0 <=> slot_line_index >= Len(slots_to_draw)]_vars

\* the second of several runs is marked, and it shares an instance with the
\* first, which is no longer marked as a whole
C15_Witness ==
    /\ pc = "events"
    /\ status = 3
    /\ slot_line_index = 1
    /\ time = 45
    /\ Len(slots_to_draw) > 2
    /\ Flagged(rolls) = RunAt(1)
    /\ RunAt(0) \cap RunAt(1) # {}
    /\ RunAt(0) # RunAt(1)

\* the phases still to come before Idle
PhasesLeft(status_) == IF status_ = 0 THEN 0 ELSE 4 - status_

\* the ticks the current phase has left at most: the way the rolling symbols
\* have to the bound, or the highlight ticks of the runs still to show
PhaseLeft(status_, rolls_, slots_to_draw_, slot_line_index_, time_) ==
    IF status_ = 1 THEN Remaining(rolls_)
    ELSE IF status_ = 3
         THEN (Len(slots_to_draw_) - slot_line_index_) * 92 + (91 - time_)
         ELSE 0

\* C16: the phase moves only along Idle -> Rolling -> Scoring -> Highlighting
\* -> Idle: Idle is left only for Rolling and only by a polled spin command,
\* every other change is made by the update of a tick, Scoring lasts exactly
\* one tick, and the loop never crashes. The machine always returns to Idle:
\* polling and updating alternate, polling leaves the phase and its remaining
\* work unchanged, and every update outside Idle strictly decreases the pair
\* <<phases left, ticks left in the phase>> of natural numbers in
\* lexicographic order, so Idle is reached after finitely many ticks.
C16_PhaseCycle ==
    [][/\ <<status, status'>> \in
             {<<0, 0>>, <<0, 1>>, <<1, 1>>, <<1, 2>>, <<2, 2>>, <<2, 3>>,
              <<3, 3>>, <<3, 0>>}
       /\ (status = 0 /\ status' = 1) => (pc = "events" /\ spin_asked(events'))
       /\ (status # 0 /\ status' # status) => pc = "update"
       /\ (pc = "update" /\ status = 2) => status' = 3
       /\ pc = "events" => pc' \in {"update", "exited"}
       /\ (pc = "events" /\ status # 0) =>
             /\ status' = status
             /\ PhaseLeft(status', rolls', slots_to_draw', slot_line_index', time')
                  = PhaseLeft(status, rolls, slots_to_draw, slot_line_index, time)
       /\ (pc = "update" /\ status # 0) =>
             /\ pc' = "events"
             /\ PhaseLeft(status, rolls, slots_to_draw, slot_line_index, time) >= 0
             /\ PhaseLeft(status', rolls', slots_to_draw', slot_line_index', time') >= 0
             /\ \/ PhasesLeft(status') < PhasesLeft(status)
                \/ /\ status' = status
                   /\ PhaseLeft(status', rolls', slots_to_draw', slot_line_index', time')
                        < PhaseLeft(status, rolls, slots_to_draw, slot_line_index, time)]_vars

\* a whole cycle has been run: Idle again, with the score of the winning
\* lines of the spin added to the balance
C16_Witness ==
    /\ pc = "events"
    /\ status = 0
    /\ slots_to_draw # <<>>
    /\ score > 0
    /\ total_score > 100

\* C18: the balance is never negative. It starts at 100; a step decreases it
\* only if it is the handling of a spin command in Idle whose cost is at most
\* the balance, and then by exactly that cost; a step increases it only if it
\* is the Highlighting tick that returns to Idle, and then by the score of the
\* spin, which is never negative and is added in that tick and in no other.
C18_BalanceNeverNegative ==
    /\ total_score = 100
    /\ [][/\ total_score >= 0
          /\ total_score' >= 0
          /\ score' >= 0
          /\ total_score' < total_score =>
                /\ pc = "events"
                /\ status = 0
                /\ status' = 1
                /\ spin_asked(events')
                /\ costs[selected_lines] <= total_score
                /\ total_score' = total_score - costs[selected_lines]
          /\ total_score' > total_score =>
                /\ pc = "update"
                /\ status = 3
                /\ status' = 0
          /\ (pc = "update" /\ status = 3 /\ status' = 0) =>
                total_score' = total_score + score
          /\ (pc = "update" /\ ~(status = 3 /\ status' = 0)) =>
                total_score' = total_score]_vars

\* Idle again after one spin: its cost was taken from the initial balance and
\* its score, a winning one, was added at the end of Highlighting
C18_Witness ==
    /\ pc = "events"
    /\ status = 0
    /\ score > 0
    /\ total_score = 100 - costs[selected_lines] + score

====
